---- MODULE Spec2Model ----
(***************************************************************************)
(* Model of simulador_dhondt.py: the D'Hondt allocator dhondt(), the       *)
(* top-4 quotient matrix quotient_matrix_top4(), the input normaliser      *)
(* sanitize(to_df(.)) and the session store st.session_state.store_df.     *)
(*                                                                         *)
(* A DataFrame is a sequence of rows; a row's index label is its position  *)
(* (1-based here, 0-based in pandas).  A float quotient v / d is kept as   *)
(* the exact pair <<v, d>> and compared by cross-multiplication: for the   *)
(* vote counts and divisors of the model two doubles v1/d1 and v2/d2 are   *)
(* equal exactly when the rationals are.                                   *)
(*                                                                         *)
(* DataFrame.sort_values and Series.sort_values are called without kind=,  *)
(* so they run numpy's default "quicksort", which is not a stable sort:    *)
(* the relative order of equal keys is not fixed by the code.  The model   *)
(* therefore lets a sort return any ordering that is non-increasing in    *)
(* the key.                                                                *)
(***************************************************************************)
EXTENDS Integers, Sequences, FiniteSets, TLC

VARIABLES
    store_df,      \* st.session_state.store_df
    edited_df,     \* what the data editor returned in the last run
    submitted,     \* the form's submit button in the last run
    reset,         \* the "Restablecer datos" button in the last run
    df,            \* the table passed to dhondt / quotient_matrix_top4
    seats,         \* the seat count passed to dhondt
    alloc,         \* dhondt's first result: seats per row index
    qdf,           \* dhondt's second result: the ranked quotient table
    mask,          \* quotient_matrix_top4's highlighted cells
    pc,            \* "ready": inputs chosen, "done": results computed
    prev_df,       \* the table of the previous dhondt call (<<>> if none)
    prev_alloc,    \* the allocation of the previous dhondt call
    raised         \* row whose votes were raised since that call (0: none)

vars == <<store_df, edited_df, submitted, reset, df, seats, alloc, qdf, mask,
          pc, prev_df, prev_alloc, raised>>

\* ------------------------------------------------------------------ bounds
\* tables of at most MaxRows rows with votes 0..MaxVotes, at most MaxSeats
\* seats, and at most MaxEntries entries in dhondt's quotient table
MaxRows == 3
MaxSeats == 3
MaxVotes == 3
MaxEntries == 6
MaxEditRows == 2
MaxEditVotes == 1
MaxTop4Rows == 2

\* --------------------------------------------------------------- constants
REQUIRED_COLS == <<"Partido", "Votos">>

\* (names in ASCII)
INIT ==
    << [Partido |-> "Fuerza Popular", Votos |-> 71758],
       [Partido |-> "Peru Libre",     Votos |-> 42691],
       [Partido |-> "Renovacion",     Votos |-> 36004],
       [Partido |-> "Accion Popular", Votos |-> 33212],
       [Partido |-> "Podemos Peru",   Votos |-> 28944] >>

\* number_input(min_value=1, ...): the smallest seat count the page passes
MinSeatsInput == 1

\* divisores = [1, 2, 3, 4]
Top4Divisores == 4

\* ----------------------------------------------------------------- helpers
RECURSIVE SumSeq(_)
SumSeq(s) == IF s = <<>> THEN 0 ELSE s[1] + SumSeq(Tail(s))

\* a < b for quotients <<v, d>> with d > 0
QLess(a, b) == a[1] * b[2] < b[1] * a[2]
QEq(a, b) == a[1] * b[2] = b[1] * a[2]

\* ------------------------------------------------------------------ dhondt
\* variant of EarlyReturn that lets seats_ = 0 through
EarlyReturnNegativeOnly(df_, seats_) == Len(df_) = 0 \/ seats_ < 0

\* if df_.empty or seats_ <= 0: return empty Series, empty DataFrame
EarlyReturn(df_, seats_) == Len(df_) = 0 \/ seats_ <= 0

\* variant of Cociente with integer division, v // d
CocienteFloor(v, d) == <<v \div d, 1>>

\* "Cociente": v / d, true division
Cociente(v, d) == <<v, d>>

\* variant of Divisors that stops one short, range(1, seats_)
DivisorsShort(seats_) == 1..(seats_ - 1)

\* range(1, seats_ + 1)
Divisors(seats_) == 1..seats_

\* rows.append({"idx": idx, "Partido": ..., "Divisor": d, "Cociente": v / d})
\* for every row of df_ and every d; the list order is irrelevant to a sort
\* that may order equal keys either way, so the rows are kept as a set
DhondtRows(df_, seats_) ==
    { [idx |-> i, Partido |-> df_[i].Partido, Divisor |-> d,
       Cociente |-> Cociente(df_[i].Votos, d)] :
        i \in 1..Len(df_), d \in Divisors(seats_) }

\* variant of DescendingOrder for ascending=True
AscendingOrder(a, b) == ~QLess(b.Cociente, a.Cociente)

\* ascending=False: a may stand before b
DescendingOrder(a, b) == ~QLess(a.Cociente, b.Cociente)

\* every arrangement of the entries of S in a sequence
RECURSIVE Orderings(_)
Orderings(S) ==
    IF S = {} THEN {<<>>}
    ELSE LET x == CHOOSE y \in S : TRUE
         IN  { SubSeq(p, 1, k) \o <<x>> \o SubSeq(p, k + 1, Len(p)) :
                 p \in Orderings(S \ {x}), k \in 0..(Cardinality(S) - 1) }

\* sort_values("Cociente", ascending=False, ignore_index=True), default
\* kind="quicksort": every ordering of E in which no entry stands before one
\* with a larger key, that is the entries of the largest key in any order,
\* then the sorted rest
RECURSIVE SortValues(_)
SortValues(E) ==
    IF E = {} THEN {<<>>}
    ELSE LET first == {e \in E : \A f \in E : DescendingOrder(e, f)}
         IN  { p \o s : p \in Orderings(first), s \in SortValues(E \ first) }

\* q["Rank"] = q.index + 1 (the index is 0-based, positions here 1-based)
RankOfPosition(k) == k

\* variant of GanaEscano with a strict comparison
GanaEscanoStrict(rank, seats_) == rank < seats_

\* q["GanaEscaño"] = q["Rank"] <= seats_
GanaEscano(rank, seats_) == rank <= seats_

Ranked(s, seats_) ==
    [k \in 1..Len(s) |->
        [idx |-> s[k].idx, Partido |-> s[k].Partido, Divisor |-> s[k].Divisor,
         Cociente |-> s[k].Cociente, Rank |-> RankOfPosition(k),
         GanaEscano |-> GanaEscano(RankOfPosition(k), seats_)]]

\* alloc = Series(0, index=df_.index); alloc.loc[r["idx"]] += 1 per winner
Alloc(df_, q) ==
    [i \in 1..Len(df_) |->
        Cardinality({k \in 1..Len(q) : q[k].GanaEscano /\ q[k].idx = i})]

\* the results dhondt(df_, seats_) can return, one per admissible sort
Dhondt(df_, seats_) ==
    IF EarlyReturn(df_, seats_)
    THEN {[alloc |-> <<>>, q |-> <<>>]}
    ELSE { [alloc |-> Alloc(df_, Ranked(s, seats_)), q |-> Ranked(s, seats_)] :
            s \in SortValues(DhondtRows(df_, seats_)) }

\* ------------------------------------------------ specification of dhondt
PartyNames == <<"A", "B", "C", "D", "E", "F">>

Table(votes) == [i \in 1..Len(votes) |-> [Partido |-> PartyNames[i], Votos |-> votes[i]]]

Tables == UNION { {Table(v) : v \in [1..n -> 0..MaxVotes]} : n \in 0..MaxRows }

NoCall == /\ store_df = <<>> /\ edited_df = <<>> /\ submitted = FALSE
          /\ reset = FALSE

InitDhondt ==
    /\ NoCall
    /\ df \in Tables
    /\ seats \in (0 - 1)..MaxSeats
    /\ Len(df) * seats <= MaxEntries
    /\ alloc = <<>> /\ qdf = <<>> /\ mask = {}
    /\ pc = "ready"
    /\ prev_df = <<>> /\ prev_alloc = <<>> /\ raised = 0

\* alloc, qdf = dhondt(df, int(seats))
CallDhondt ==
    /\ pc = "ready"
    /\ \E r \in Dhondt(df, seats) : alloc' = r.alloc /\ qdf' = r.q
    /\ pc' = "done"
    /\ UNCHANGED <<store_df, edited_df, submitted, reset, df, seats, mask,
                   prev_df, prev_alloc, raised>>

\* a second call on the same table with one row's votes increased
RaiseVotes ==
    /\ pc = "done"
    /\ \E i \in 1..Len(df) : \E w \in (df[i].Votos + 1)..MaxVotes :
          /\ df' = [df EXCEPT ![i].Votos = w]
          /\ raised' = i
    /\ prev_df' = df
    /\ prev_alloc' = alloc
    /\ alloc' = <<>> /\ qdf' = <<>>
    /\ pc' = "ready"
    /\ UNCHANGED <<store_df, edited_df, submitted, reset, seats, mask>>

NextDhondt == CallDhondt \/ RaiseVotes

SpecDhondt == InitDhondt /\ [][NextDhondt]_vars

\* ------------------------------------------------------- claims on dhondt
DhondtCalled == pc = "done" /\ Len(df) > 0 /\ seats > 0

\* C1: for a non-empty table and seats > 0 the seats won sum to exactly
\* seats; a single row wins them all.
C1_SeatsSumToSeats ==
    DhondtCalled =>
        /\ SumSeq(alloc) = seats
        /\ (Len(df) = 1 => alloc[1] = seats)

C1_Witness_MoreRowsThanSeats ==
    /\ DhondtCalled
    /\ Len(df) > seats
    /\ SumSeq(alloc) = seats
    /\ \E i \in 1..Len(df) : alloc[i] = 0

\* C2: two entries of different rows with equal quotients are ranked in input
\* order: the entry of the earlier row has the smaller rank.
C2_TiesRankedByInputOrder ==
    pc = "done" =>
        \A k, l \in 1..Len(qdf) :
            (qdf[k].idx < qdf[l].idx /\ QEq(qdf[k].Cociente, qdf[l].Cociente))
                => qdf[k].Rank < qdf[l].Rank

\* C3 as stated: with seats <= 0 or an empty table the quotient table is empty
\* and the allocation holds every input row with 0 seats.
C3_EmptyCaseAllRowsZero ==
    (pc = "done" /\ (seats <= 0 \/ Len(df) = 0)) =>
        /\ qdf = <<>>
        /\ DOMAIN alloc = 1..Len(df)
        /\ \A i \in 1..Len(df) : alloc[i] = 0

\* C3 amended: with seats <= 0 or an empty table the quotient table is empty
\* and the allocation is empty too: it holds no row at all.
C3_EmptyCaseEmptyAllocation ==
    (pc = "done" /\ (seats <= 0 \/ Len(df) = 0)) =>
        /\ qdf = <<>>
        /\ DOMAIN alloc = {}

C3_Witness_ZeroSeatsNonEmptyTable ==
    /\ pc = "done"
    /\ seats <= 0
    /\ Len(df) > 0
    /\ qdf = <<>>
    /\ DOMAIN alloc = {}

\* the iterative highest-averages procedure: n times, one more seat to the
\* row with the largest votes / (seats already won + 1), the earliest on a tie
RECURSIVE HighestAverages(_, _, _)
HighestAverages(df_, won, n) ==
    IF n = 0 THEN won
    ELSE LET avg(i) == <<df_[i].Votos, won[i] + 1>>
             best == CHOOSE i \in 1..Len(df_) :
                        \A j \in 1..Len(df_) :
                            \/ QLess(avg(j), avg(i))
                            \/ (QEq(avg(j), avg(i)) /\ i <= j)
         IN  HighestAverages(df_, [won EXCEPT ![best] = @ + 1], n - 1)

\* C4: the seats dhondt assigns equal, row by row, those of the iterative
\* highest-averages procedure with ties going to the earliest row.
C4_EqualsHighestAverages ==
    DhondtCalled =>
        alloc = HighestAverages(df, [i \in 1..Len(df) |-> 0], seats)

\* C5: raising one row's votes, all else fixed, never lowers that row's seats.
C5_Monotone ==
    (DhondtCalled /\ raised # 0) => alloc[raised] >= prev_alloc[raised]

C5_Witness_RaisedRowGains ==
    /\ DhondtCalled
    /\ raised # 0
    /\ prev_df[raised].Votos < df[raised].Votos
    /\ \A i \in 1..Len(df) : i # raised => prev_df[i] = df[i]
    /\ alloc[raised] > prev_alloc[raised]

\* C6: the quotient table has exactly rows x seats entries, one per (row,
\* divisor) with quotient votes / divisor, in non-increasing quotient order,
\* ranked 1..rows x seats in that order, winning iff rank <= seats.
C6_QuotientTableShape ==
    DhondtCalled =>
        /\ Len(qdf) = Len(df) * seats
        /\ \A i \in 1..Len(df) : \A d \in 1..seats :
              Cardinality({k \in 1..Len(qdf) :
                  /\ qdf[k].idx = i
                  /\ qdf[k].Divisor = d
                  /\ qdf[k].Cociente = <<df[i].Votos, d>>}) = 1
        /\ \A k \in 1..(Len(qdf) - 1) :
              ~QLess(qdf[k].Cociente, qdf[k + 1].Cociente)
        /\ \A k \in 1..Len(qdf) :
              /\ qdf[k].Rank = k
              /\ qdf[k].GanaEscano = (k <= seats)

C6_Witness_FullTable ==
    /\ DhondtCalled
    /\ Len(df) >= 2
    /\ seats >= 2
    /\ Len(qdf) = Len(df) * seats
    /\ qdf[seats].GanaEscano
    /\ ~qdf[seats + 1].GanaEscano
    /\ QLess(qdf[Len(qdf)].Cociente, qdf[1].Cociente)

\* C7: with every row at 0 votes the first input row wins all the seats and
\* every other row none; no row ever wins more than seats seats.
C7_AllZeroFirstRowWinsAll ==
    DhondtCalled =>
        /\ \A i \in 1..Len(df) : alloc[i] <= seats
        /\ (\A i \in 1..Len(df) : df[i].Votos = 0) =>
              /\ alloc[1] = seats
              /\ \A i \in 2..Len(df) : alloc[i] = 0

\* C10: a row with strictly more votes than another never wins fewer seats
\* than it, wherever the two stand; a row with 0 votes wins nothing when some
\* row has votes.
C10_MoreVotesNoFewerSeats ==
    DhondtCalled =>
        /\ \A i, j \in 1..Len(df) :
              df[i].Votos > df[j].Votos => alloc[i] >= alloc[j]
        /\ (\E i \in 1..Len(df) : df[i].Votos > 0) =>
              \A j \in 1..Len(df) : df[j].Votos = 0 => alloc[j] = 0

C10_Witness_LaterRowWithMoreVotes ==
    /\ DhondtCalled
    /\ \E i, j \in 1..Len(df) :
          /\ i < j
          /\ df[j].Votos > df[i].Votos
          /\ df[i].Votos > 0
          /\ alloc[j] > alloc[i]
    /\ \E j \in 1..Len(df) : df[j].Votos = 0 /\ alloc[j] = 0

\* ---------------------------------------------------- quotient_matrix_top4
\* m.round(0).astype(int) of v / d: numpy rounds a half to the even integer
RoundHalfEven(v, d) ==
    LET q == v \div d
        r == v % d
    IN  IF 2 * r < d THEN q
        ELSE IF 2 * r > d THEN q + 1
        ELSE IF q % 2 = 0 THEN q ELSE q + 1

\* m is indexed by party NAME: m.at[r["Partido"], col] = r["Votos"] / d writes
\* every row carrying that name, so after the loop a row shows the quotients
\* of the last input row of its name
LastRowNamed(df_, i) ==
    CHOOSE j \in 1..Len(df_) :
        /\ df_[j].Partido = df_[i].Partido
        /\ \A k \in (j + 1)..Len(df_) : df_[k].Partido # df_[i].Partido

\* m_int
QuotientMatrixInt(df_) ==
    [i \in 1..Len(df_) |->
        [d \in 1..Top4Divisores |->
            RoundHalfEven(df_[LastRowNamed(df_, i)].Votos, d)]]

\* m_int.stack(): one entry per cell, labelled (party name, column)
Stack(df_, m_int) ==
    { [row |-> i, Partido |-> df_[i].Partido, col |-> d, val |-> m_int[i][d]] :
        i \in 1..Len(df_), d \in 1..Top4Divisores }

\* Series.sort_values(ascending=False), default kind="quicksort": every
\* ordering in which no entry stands before one with a larger value
RECURSIVE SeriesSortValues(_)
SeriesSortValues(E) ==
    IF E = {} THEN {<<>>}
    ELSE LET first == {e \in E : \A f \in E : e.val >= f.val}
         IN  { p \o s : p \in Orderings(first), s \in SeriesSortValues(E \ first) }

\* .head(4)
Head4(s) == SubSeq(s, 1, IF Len(s) < 4 THEN Len(s) ELSE 4)

\* for idx, col in flat.index: mask.loc[idx, col] = True, where idx is a party
\* name: every row of that name is marked in that column
MaskOf(df_, flat) ==
    { c \in (1..Len(df_)) \X (1..Top4Divisores) :
        \E k \in 1..Len(flat) :
            flat[k].Partido = df_[c[1]].Partido /\ flat[k].col = c[2] }

\* the sets of highlighted cells <<row, divisor>> the function can produce
QuotientMatrixTop4(df_) ==
    { MaskOf(df_, Head4(s)) :
        s \in SeriesSortValues(Stack(df_, QuotientMatrixInt(df_))) }

\* ------------------------------------- specification of quotient_matrix_top4
Top4Names == {"A", "B"}

Top4Tables ==
    UNION { [1..n -> [Partido : Top4Names, Votos : 0..MaxVotes]] :
              n \in 1..MaxTop4Rows }

InitTop4 ==
    /\ NoCall
    /\ df \in Top4Tables
    /\ seats = Top4Divisores
    /\ alloc = <<>> /\ qdf = <<>> /\ mask = {}
    /\ pc = "ready"
    /\ prev_df = <<>> /\ prev_alloc = <<>> /\ raised = 0

\* st.write(quotient_matrix_top4(df))
CallTop4 ==
    /\ pc = "ready"
    /\ mask' \in QuotientMatrixTop4(df)
    /\ pc' = "done"
    /\ UNCHANGED <<store_df, edited_df, submitted, reset, df, seats, alloc,
                   qdf, prev_df, prev_alloc, raised>>

NextTop4 == CallTop4

SpecTop4 == InitTop4 /\ [][NextTop4]_vars

\* the winning (row, divisor) entries of a quotient table
Winners(q) == { <<q[k].idx, q[k].Divisor>> : k \in {l \in 1..Len(q) : q[l].GanaEscano} }

\* C8: the highlighted cells are exactly the winning entries of dhondt called
\* with seats = 4 (of one of the rankings dhondt can return), also when party
\* names repeat or quotients differ only in their fractional part.
C8_Top4EqualsDhondtWinners ==
    (pc = "done" /\ Len(df) > 0) =>
        mask \in { Winners(r.q) : r \in Dhondt(df, Top4Divisores) }

\* ------------------------------------------------------ to_df and sanitize
\* A cell of the edited "Votos" column: a number (kept in halves, h = 2 x the
\* value, so that 1.5 is h = 3), a missing value (None / NaN) or a text that
\* is no number.  A cell of "Partido": a string or None.
NoneName == "<None>"

NumCell(h) == [t |-> "num", h |-> h]
NanCell == [t |-> "nan", h |-> 0]
StrCell == [t |-> "str", h |-> 0]

\* to_df on the DataFrame the editor returns: its columns are already
\* "Partido" and "Votos", so what is left is df[REQUIRED_COLS]
ToDf(obj) ==
    [i \in 1..Len(obj) |-> [Partido |-> obj[i].Partido, Votos |-> obj[i].Votos]]

\* pd.to_numeric(..., errors="coerce"): NaN for what is no number
ToNumeric(c) ==
    IF c.t = "num" THEN [nan |-> FALSE, h |-> c.h] ELSE [nan |-> TRUE, h |-> 0]

\* .fillna(0)
FillNa(x) == IF x.nan THEN 0 ELSE x.h

\* variant of ClipLower that clips nothing
ClipNothing(h) == h

\* .clip(lower=0)
ClipLower(h) == IF h < 0 THEN 0 ELSE h

\* .round().astype(int): halves go to the even integer
RoundAsInt(h) ==
    LET q == h \div 2
    IN  IF h % 2 = 0 THEN q ELSE IF q % 2 = 0 THEN q ELSE q + 1

\* df["Partido"].fillna("").astype(str)
SanitizePartido(p) == IF p = NoneName THEN "" ELSE p

SanitizeVotos(c) == RoundAsInt(ClipLower(FillNa(ToNumeric(c))))

Sanitize(t) ==
    [i \in 1..Len(t) |->
        [Partido |-> SanitizePartido(t[i].Partido),
         Votos |-> SanitizeVotos(t[i].Votos)]]

\* -------------------------------------------- specification of the session
\* number_input(..., value=4, ...)
DefaultSeats == 4

\* what the editor returns when nothing was edited: its input
Unedited(t) ==
    [i \in 1..Len(t) |-> [Partido |-> t[i].Partido, Votos |-> NumCell(2 * t[i].Votos)]]

VotosCells ==
    {NumCell(h) : h \in (0 - 2)..(2 * MaxEditVotes)} \cup {NanCell, StrCell}

\* row i of an edited table: a row that was added and left empty (blank), or
\* a named row with the given vote cell
EditedRow(i, blank, c) ==
    IF blank THEN [Partido |-> NoneName, Votos |-> NanCell]
    ELSE [Partido |-> PartyNames[i], Votos |-> c]

\* the tables the editor can return: num_rows="dynamic" lets rows be added
\* and deleted, and any cell be rewritten
EditedTables ==
    UNION { { [i \in 1..n |-> EditedRow(i, ch[i][1], ch[i][2])] :
                ch \in [1..n -> ({FALSE} \X VotosCells) \cup {<<TRUE, NanCell>>}] } :
            n \in 0..MaxEditRows }

SeatInputs == MinSeatsInput..MaxSeats

\* A run of the script updates the store (lines 86-124), copies it (line
\* 127) and passes the copy and the seat count to dhondt (line 132) and to
\* quotient_matrix_top4 (line 200).  Both are pure functions of these
\* arguments and their results are only rendered; they are studied from their
\* arguments under SpecDhondt and SpecTop4, and stay unset here.

\* the first run of the script: the store is created from INIT
Init ==
    /\ store_df = INIT
    /\ edited_df = Unedited(INIT)
    /\ submitted = FALSE
    /\ reset = FALSE
    /\ df = INIT
    /\ seats = DefaultSeats
    /\ alloc = <<>> /\ qdf = <<>> /\ mask = {}
    /\ pc = "ready"
    /\ prev_df = <<>> /\ prev_alloc = <<>> /\ raised = 0

Results == <<alloc, qdf, mask, pc, prev_df, prev_alloc, raised>>

\* a run started by the seat input: no button is pressed
Rerun ==
    /\ \E s \in SeatInputs : seats' = s
    /\ reset' = FALSE
    /\ submitted' = FALSE
    /\ edited_df' = Unedited(store_df)
    /\ store_df' = store_df
    /\ df' = store_df'
    /\ UNCHANGED Results

\* a run started by "Restablecer datos"
Reset ==
    /\ reset' = TRUE
    /\ store_df' = INIT
    /\ edited_df' = Unedited(INIT)
    /\ submitted' = FALSE
    /\ df' = store_df'
    /\ UNCHANGED <<seats, Results>>

\* a run started by the form's "Recalcular"
Submit ==
    /\ reset' = FALSE
    /\ \E e \in EditedTables : edited_df' = e
    /\ submitted' = TRUE
    /\ store_df' = Sanitize(ToDf(edited_df'))
    /\ df' = store_df'
    /\ UNCHANGED <<seats, Results>>

Next == Rerun \/ Reset \/ Submit

Spec == Init /\ [][Next]_vars

C9_VotesNat(t) == \A i \in 1..Len(t) : t[i].Votos \in Nat

\* what one run of the script must do to the store
C9_Run ==
    /\ df' = store_df'
    /\ C9_VotesNat(df')
    /\ submitted' =>
          /\ Len(store_df') = Len(edited_df')
          /\ \A i \in 1..Len(edited_df') :
                LET c == edited_df'[i].Votos
                IN  /\ (c.t # "num" \/ c.h < 0) => store_df'[i].Votos = 0
                    /\ (c.t = "num" /\ c.h >= 0 /\ c.h % 2 = 0)
                          => store_df'[i].Votos = c.h \div 2
    /\ (~submitted' /\ ~reset') => store_df' = store_df
    /\ (~submitted' /\ reset') => store_df' = INIT

====
